---- MODULE Spec2Model ----
(***************************************************************************)
(* Model of the vacantes backend (src/index.js): one table "vacantes"      *)
(* reached through either SQLite (embedded) or Postgres (networked), the   *)
(* startup migration of each backend, and the five REST handlers           *)
(* (list, get by id, create, update, delete).                              *)
(*                                                                         *)
(* JavaScript strings are sequences of one-character strings, so that      *)
(* padStart, slice and template concatenation are computed, not assumed.   *)
(* Null and Undefined are one-element sequences that no string equals.     *)
(* A value of a JSON column or of a JSON body field is a record            *)
(* [t, v]: t is "undefined", "null", "list" (a structured array of         *)
(* objects, v the array) or "text" (a serialized JSON text, v its tokens). *)
(***************************************************************************)
EXTENDS Integers, Sequences, FiniteSets, TLC

\* ------------------------------------------------------------------ bounds
MaxCreates == 2     \* rows inserted in one behaviour
MaxPuts == 1        \* rows updated by PUT in one behaviour
MaxDeletes == 1     \* rows deleted in one behaviour
MaxSlots == 2       \* requests in flight between two of their statements
MaxDay == 1         \* days the clock may advance
MaxDuring == 2      \* request steps served while statements of one startup are outstanding

Slots == 1..MaxSlots
Ids == 1..MaxCreates

\* ------------------------------------------------------------- JS strings
Null == <<"null">>
Undefined == <<"undefined">>
Empty == <<>>

Falsy(x) == x \in {Null, Undefined, Empty}
\* a || b
Or(a, b) == IF Falsy(a) THEN b ELSE a

DigitChars == <<"0", "1", "2", "3", "4", "5", "6", "7", "8", "9">>

RECURSIVE toString(_)
\* Number.prototype.toString for a non-negative integer
toString(n) ==
    IF n < 10 THEN <<DigitChars[n + 1]>>
    ELSE toString(n \div 10) \o <<DigitChars[(n % 10) + 1]>>

RECURSIVE padStart(_, _, _)
\* String.prototype.padStart(len, c) with a one-character filler
padStart(s, len, c) == IF Len(s) >= len THEN s ELSE padStart(<<c>> \o s, len, c)

\* String.prototype.slice(0, n)
slice0(s, n) == SubSeq(s, 1, IF Len(s) < n THEN Len(s) ELSE n)

pad4Short(n) == padStart(toString(n), 3, "0")

pad4(n) == padStart(toString(n), 4, "0")

\* ------------------------------------------------------------------ clock
\* new Date() in local time: the day `now` days after 2024-12-31.
DateOf(k) ==
    IF k = 0 THEN [y |-> 2024, m |-> 12, d |-> 31]
    ELSE [y |-> 2025, m |-> 1, d |-> k]

hoyYYYYMMDD(k) ==
    LET d == DateOf(k)
    IN  toString(d.y) \o padStart(toString(d.m), 2, "0") \o padStart(toString(d.d), 2, "0")

hoyISODate(k) ==
    LET d == DateOf(k)
    IN  toString(d.y) \o <<"-">> \o padStart(toString(d.m), 2, "0")
          \o <<"-">> \o padStart(toString(d.d), 2, "0")

\* `PL-${hoyYYYYMMDD()}-${pad4(id)}`
Folio(k, id) == <<"P", "L", "-">> \o hoyYYYYMMDD(k) \o <<"-">> \o pad4(id)

\* ------------------------------------------------------------------- JSON
JNull == [t |-> "null", v |-> <<>>]
JUndefined == [t |-> "undefined", v |-> <<>>]
JList(l) == [t |-> "list", v |-> l]
JText(toks) == [t |-> "text", v |-> toks]
JError == [t |-> "error", v |-> <<>>]

\* truthiness of a JSON field: undefined and null are falsy, an array
\* (the empty one too) and a non-empty text are truthy
JFalsy(x) == x.t \in {"undefined", "null"} \/ (x.t = "text" /\ x.v = <<>>)
JOrNull(x) == IF JFalsy(x) THEN JNull ELSE x

Tok(k, s) == [k |-> k, s |-> s]
P(c) == Tok("punct", c)

\* the property names the bodies use, in the order they are emitted
KeyOrder == <<"tipo", "habilidad", "type", "name">>

RECURSIVE StrMembers(_, _)
StrMembers(o, ks) ==
    IF ks = <<>> THEN <<>>
    ELSE <<Tok("string", Head(ks)), P(":"), Tok("string", o[Head(ks)])>>
           \o (IF Tail(ks) = <<>> THEN <<>> ELSE <<P(",")>>)
           \o StrMembers(o, Tail(ks))

StrObject(o) ==
    <<P("{")>> \o StrMembers(o, SelectSeq(KeyOrder, LAMBDA k : k \in DOMAIN o)) \o <<P("}")>>

RECURSIVE StrElems(_)
StrElems(l) ==
    IF l = <<>> THEN <<>>
    ELSE StrObject(Head(l)) \o (IF Tail(l) = <<>> THEN <<>> ELSE <<P(",")>>)
           \o StrElems(Tail(l))

\* JSON.stringify of an array of flat objects with string values
JSONstringify(l) == <<P("[")>> \o StrElems(l) \o <<P("]")>>

TokAt(toks, p) == IF p <= Len(toks) THEN toks[p] ELSE Tok("eof", "")

Extend(o, k, x) == [j \in DOMAIN o \cup {k} |-> IF j = k THEN x ELSE o[j]]
EmptyObject == [j \in {} |-> ""]
ParseFail == [ok |-> FALSE, v |-> <<>>, p |-> 0]

RECURSIVE ParseMembers(_, _, _)
\* at p: "key" : "value" ( , | } )
ParseMembers(toks, p, o) ==
    IF  /\ TokAt(toks, p).k = "string"
        /\ TokAt(toks, p + 1) = P(":")
        /\ TokAt(toks, p + 2).k = "string"
    THEN LET o2 == Extend(o, TokAt(toks, p).s, TokAt(toks, p + 2).s)
         IN  IF TokAt(toks, p + 3) = P(",") THEN ParseMembers(toks, p + 4, o2)
             ELSE IF TokAt(toks, p + 3) = P("}") THEN [ok |-> TRUE, v |-> o2, p |-> p + 4]
             ELSE ParseFail
    ELSE ParseFail

ParseObject(toks, p) ==
    IF TokAt(toks, p) # P("{") THEN ParseFail
    ELSE IF TokAt(toks, p + 1) = P("}") THEN [ok |-> TRUE, v |-> EmptyObject, p |-> p + 2]
    ELSE ParseMembers(toks, p + 1, EmptyObject)

RECURSIVE ParseElems(_, _, _)
\* at p: object ( , | ] )
ParseElems(toks, p, acc) ==
    LET r == ParseObject(toks, p)
    IN  IF ~r.ok THEN ParseFail
        ELSE IF TokAt(toks, r.p) = P(",") THEN ParseElems(toks, r.p + 1, Append(acc, r.v))
        ELSE IF TokAt(toks, r.p) = P("]")
             THEN [ok |-> TRUE, v |-> Append(acc, r.v), p |-> r.p + 1]
        ELSE ParseFail

\* JSON.parse of a text holding an array of flat objects
JSONparse(toks) ==
    IF TokAt(toks, 1) # P("[") THEN JError
    ELSE IF TokAt(toks, 2) = P("]")
         THEN (IF Len(toks) = 2 THEN JList(<<>>) ELSE JError)
    ELSE LET r == ParseElems(toks, 2, <<>>)
         IN  IF r.ok /\ r.p = Len(toks) + 1 THEN JList(r.v) ELSE JError

\* ----------------------------------------------------------------- schema
\* CREATE TABLE IF NOT EXISTS vacantes (...) of migrateSQLite
SqliteBase ==
    <<"id", "nombre", "area", "requisitor", "tipoProceso", "tipo", "prioridad",
      "fecha", "comentarios", "estatus">>

\* the columns migrateSQLite ensures, in the order of its ensureColumn calls
NewColumns == <<"folio", "fechaInicio", "habilidades", "terna">>

\* the table the previous release of the server left behind: its migration
\* ensured folio and fechaInicio only
SqliteLegacy == SqliteBase \o <<"folio", "fechaInicio">>

SqliteFull == SqliteBase \o NewColumns

\* CREATE TABLE IF NOT EXISTS vacantes (...) of migratePostgres
PgFull ==
    <<"id", "folio", "nombre", "area", "requisitor", "tipoProceso", "tipo",
      "prioridad", "fechaInicio", "comentarios", "estatus", "habilidades", "terna">>

\* a Postgres table created before the column terna was introduced
PgLegacy == SubSeq(PgFull, 1, Len(PgFull) - 1)

Range(q) == {q[i] : i \in 1..Len(q)}
Has(cols, c) == c \in Range(cols)
NoDuplicates(cols) == \A i, j \in 1..Len(cols) : cols[i] = cols[j] => i = j

IsDigit(c) == c \in Range(DigitChars)
DigitValue(c) == CHOOSE d \in 0..9 : DigitChars[d + 1] = c
AllDigits(q) == \A j \in 1..Len(q) : IsDigit(q[j])

RECURSIVE Decimal(_)
\* the number a sequence of digits writes
Decimal(q) ==
    IF q = <<>> THEN 0
    ELSE 10 * Decimal(SubSeq(q, 1, Len(q) - 1)) + DigitValue(q[Len(q)])

\* days of month m of year y
DaysIn(y, m) ==
    IF m = 2 THEN (IF (y % 4 = 0 /\ y % 100 # 0) \/ y % 400 = 0 THEN 29 ELSE 28)
    ELSE IF m \in {4, 6, 9, 11} THEN 30 ELSE 31

\* the texts column fechaInicio DATE (Postgres) takes from the handler: a
\* calendar date written YYYY-MM-DD; any other text is refused (invalid input
\* syntax for type date, or field value out of range)
IsDateText(x) ==
    /\ Len(x) = 10
    /\ AllDigits(SubSeq(x, 1, 4)) /\ x[5] = "-"
    /\ AllDigits(SubSeq(x, 6, 7)) /\ x[8] = "-"
    /\ AllDigits(SubSeq(x, 9, 10))
    /\ LET y == Decimal(SubSeq(x, 1, 4))
           m == Decimal(SubSeq(x, 6, 7))
           d == Decimal(SubSeq(x, 9, 10))
       IN  y >= 1 /\ m \in 1..12 /\ d \in 1..DaysIn(y, m)

\* ALTER TABLE ... ADD COLUMN c (SQLite): fails on an I/O fault, on a table
\* that does not exist (no such table) and on a column that already exists
\* (duplicate column name)
SqlAddColumn(cols, c, fault) ==
    IF fault \/ cols = <<>> \/ Has(cols, c)
    THEN [ok |-> FALSE, cols |-> cols]
    ELSE [ok |-> TRUE, cols |-> Append(cols, c)]

\* CREATE TABLE IF NOT EXISTS vacantes (...) on either backend
CreateTable(cols, base) == IF cols = <<>> THEN base ELSE cols

\* const exists = rows.some(r => r.name === column), rows being the rows of
\* PRAGMA table_info(vacantes)
exists(cols, c) == Has(cols, c)

\* ALTER TABLE vacantes ADD COLUMN IF NOT EXISTS terna JSONB (Postgres)
AddColumnIfNotExists(cols, c) == IF Has(cols, c) THEN cols ELSE Append(cols, c)

MaxOf(S) == CHOOSE m \in S : \A x \in S : x <= m

\* SELECT setval(pg_get_serial_sequence('vacantes','id'),
\*               COALESCE((SELECT MAX(id) FROM vacantes), 0))
\* The sequence of a SERIAL column has MINVALUE 1: setval(.., 0) is refused
\* (value out of bounds) and the catch logs a warning.
setval(ids, last) ==
    IF ids = {} THEN [seq |-> last, log |-> <<"seq_warn">>]
    ELSE [seq |-> MaxOf(ids), log |-> <<"seq_synced">>]

\* ------------------------------------------------------------------ state
VARIABLES
    USE_PG,     \* the backend chosen at startup from the environment
    up,         \* the process is running (it listens from its start on)
    mig,        \* the statement the startup migration of the process is at
    queued,     \* SQLite: CREATE TABLE is handed to the driver and has not run
    columns,    \* the columns of table vacantes, in order (<<>>: no table)
    table,      \* the rows of vacantes, by id
    seq,        \* sqlite_sequence.seq / last value of vacantes_id_seq
    now,        \* the clock, in days
    slot,       \* the requests in flight between two turns of the event loop
    resp,       \* the last response sent
    log,        \* what the startup migration of the process has logged
    during,     \* history: request steps served while this migration has run
    puts,       \* history: rows updated by PUT so far
    dels,       \* history: rows deleted so far
    migrations, \* history: a startup migration has completed on this schema (0, 1)
    assigned,   \* history: the ids create has assigned, in order
    ghost       \* history, by id: the record's identity and what was written

vars ==
    <<USE_PG, up, mig, queued, columns, table, seq, now, slot, resp, log, during, puts, dels,
      migrations, assigned, ghost>>

Idle == [pc |-> "idle", id |-> 0, fechaInicio |-> Null, folio |-> Null, body |-> <<>>,
         uid |-> 0, born |-> 0, empty |-> FALSE]
NoResp == [op |-> "none", status |-> 0, kind |-> "none", id |-> 0, body |-> <<>>,
           ctx |-> <<>>]
EmptyTable == [i \in {} |-> <<>>]

\* the position of the migration: pc names the statement that runs next, col
\* the column of NewColumns an ensureColumn call is about
Mig(pc, col) == [pc |-> pc, col |-> col]
MigOff == Mig("off", 0)
MigDone == Mig("done", 0)

Completed(n) == IF n < 1 THEN n + 1 ELSE n

\* the statements of the startup have all run (or been given up)
StartupOver(m, q) == m.pc = "done" /\ ~q

\* a request step is counted while statements of the startup are outstanding
Served(n) == IF StartupOver(mig, queued) THEN n ELSE n + 1

\* the count starts again when the last statement of the startup has run
Window(m, q, n) == IF StartupOver(m, q) THEN 0 ELSE n

\* The process starts: module load runs the startup IIFE up to its first await
\* and app.listen. migrateSQLite has handed CREATE TABLE IF NOT EXISTS and the
\* PRAGMA of the first ensureColumn to the driver; migratePostgres has made the
\* pool and sent its CREATE TABLE. No statement has run yet. From here on
\* requests are served while the migration goes on.
\* (new sqlite3.Database opens the file in a later turn and its callback only
\* prints the outcome. After a failed open no statement gets its turn: these
\* are the behaviours in which no statement step follows this one.)
Startup ==
    /\ ~up
    /\ resp = NoResp
    /\ up' = TRUE
    /\ log' = <<>>
    /\ during' = 0
    /\ mig' = IF USE_PG THEN Mig("create", 0) ELSE Mig("pragma", 1)
    /\ queued' = ~USE_PG
    /\ UNCHANGED <<USE_PG, columns, table, seq, now, slot, resp, puts, dels, migrations, assigned,
                   ghost>>

\* db.run(CREATE TABLE IF NOT EXISTS vacantes ...) of migrateSQLite runs. The
\* call has no callback and the code does not use db.serialize: the driver
\* does not order it with the statements handed after it, and when it fails
\* the table is not made and the migration goes on.
createTable(fault) ==
    /\ up
    /\ resp = NoResp
    /\ queued
    /\ queued' = FALSE
    /\ columns' = IF fault THEN columns ELSE CreateTable(columns, SqliteBase)
    /\ during' = Window(mig, FALSE, during)
    /\ UNCHANGED <<USE_PG, up, mig, table, seq, now, slot, resp, log, puts, dels,
                   migrations, assigned, ghost>>

\* what follows the ensureColumn call of column number col when it resolves:
\* the next call, or the end of the try block (console.log, migration done)
Resolved(col) ==
    IF col < Len(NewColumns)
    THEN [mig |-> Mig("pragma", col + 1), log |-> <<>>, done |-> FALSE]
    ELSE [mig |-> MigDone, log |-> <<"sqlite_done">>, done |-> TRUE]

\* what follows when it rejects: the catch of migrateSQLite logs the error and
\* the calls after it are not made
Rejected == [mig |-> MigDone, log |-> <<"sqlite_error">>, done |-> FALSE]

\* ensureColumn, first statement: PRAGMA table_info(vacantes) and its callback
\* (on a table that does not exist the PRAGMA answers no rows)
ensureColumnPragma(fault) ==
    /\ up
    /\ resp = NoResp
    /\ mig.pc = "pragma"
    /\ LET c == NewColumns[mig.col]
           r == IF fault THEN Rejected
                ELSE IF exists(columns, c) THEN Resolved(mig.col)
                ELSE [mig |-> Mig("alter", mig.col), log |-> <<>>, done |-> FALSE]
       IN  /\ mig' = r.mig
           /\ log' = log \o r.log
           /\ during' = Window(r.mig, queued, during)
           /\ migrations' = IF r.done THEN Completed(migrations) ELSE migrations
    /\ UNCHANGED <<USE_PG, queued, up, columns, table, seq, now, slot, resp, puts, dels, assigned,
                   ghost>>

\* ensureColumn, second statement: ALTER TABLE vacantes ADD COLUMN and its
\* callback
ensureColumnAlter(fault) ==
    /\ up
    /\ resp = NoResp
    /\ mig.pc = "alter"
    /\ LET c == NewColumns[mig.col]
           a == SqlAddColumn(columns, c, fault)
           r == IF a.ok THEN Resolved(mig.col) ELSE Rejected
       IN  /\ columns' = a.cols
           /\ mig' = r.mig
           /\ log' = log \o r.log
           /\ during' = Window(r.mig, queued, during)
           /\ migrations' = IF r.done THEN Completed(migrations) ELSE migrations
    /\ UNCHANGED <<USE_PG, queued, up, table, seq, now, slot, resp, puts, dels, assigned, ghost>>

\* what follows when an awaited query of migratePostgres rejects: the error
\* leaves migratePostgres, the catch of the startup IIFE logs it, and the
\* queries after it are not sent
Thrown == [mig |-> MigDone, log |-> <<"init_error">>]

\* migratePostgres, one awaited query per step: CREATE TABLE IF NOT EXISTS,
\* ALTER TABLE ADD COLUMN IF NOT EXISTS terna, CREATE INDEX IF NOT EXISTS (then
\* console.log), and the sequence resync inside its own try, whose catch warns
migratePostgres(fault) ==
    /\ up
    /\ resp = NoResp
    /\ USE_PG
    /\ mig.pc \in {"create", "terna", "index", "setval"}
    /\ during' = IF fault \/ mig.pc = "setval" THEN 0 ELSE during
    /\ CASE mig.pc = "setval" ->
              LET r == IF fault THEN [seq |-> seq, log |-> <<"seq_warn">>]
                       ELSE setval(DOMAIN table, seq)
              IN  /\ seq' = r.seq
                  /\ log' = log \o r.log
                  /\ mig' = MigDone
                  /\ migrations' = Completed(migrations)
                  /\ columns' = columns
         [] mig.pc # "setval" /\ fault ->
              /\ mig' = Thrown.mig
              /\ log' = log \o Thrown.log
              /\ UNCHANGED <<columns, seq, migrations>>
         [] mig.pc = "create" /\ ~fault ->
              /\ columns' = CreateTable(columns, PgFull)
              /\ mig' = Mig("terna", 0)
              /\ UNCHANGED <<seq, log, migrations>>
         [] mig.pc = "terna" /\ ~fault ->
              /\ columns' = AddColumnIfNotExists(columns, "terna")
              /\ mig' = Mig("index", 0)
              /\ UNCHANGED <<seq, log, migrations>>
         [] mig.pc = "index" /\ ~fault ->
              /\ log' = log \o <<"pg_done">>
              /\ mig' = Mig("setval", 0)
              /\ UNCHANGED <<columns, seq, migrations>>
    /\ UNCHANGED <<USE_PG, queued, up, table, now, slot, resp, puts, dels, assigned, ghost>>

\* the process ends; the requests in flight and the migration end with it
Stop ==
    /\ up
    /\ resp = NoResp
    /\ up' = FALSE
    /\ mig' = MigOff
    /\ queued' = FALSE
    /\ during' = 0
    /\ slot' = [s \in Slots |-> Idle]
    /\ UNCHANGED <<USE_PG, columns, table, seq, now, resp, log, puts, dels, migrations,
                   assigned, ghost>>

\* midnight passes
Tick ==
    /\ now < MaxDay
    /\ resp = NoResp
    /\ now' = now + 1
    /\ UNCHANGED <<during, USE_PG, queued, up, mig, columns, table, seq, slot, resp, log, puts, dels,
                   migrations, assigned, ghost>>

\* ------------------------------------------------------------------- rows
Desde == <<"2", "0", "2", "4", "-", "0", "7", "-", "1", "5", "T", "0", "9", ":", "3", "0">>

\* the scenario of the specification: no fechaIngreso
PostBodyA ==
    [nombre |-> <<"D", "e", "v">>, area |-> <<"I", "T">>, requisitor |-> <<"A", "n", "a">>,
     tipoProceso |-> <<"N", "u", "e", "v", "a">>, tipo |-> <<"F", "T">>,
     prioridad |-> <<"A", "l", "t", "a">>, comentarios |-> <<"u", "r", "g">>]

\* a body with fechaIngreso and with fields left out
PostBodyB == [nombre |-> <<"Q", "A">>, comentarios |-> Empty, fechaIngreso |-> Desde]

\* a body whose fechaIngreso is a text of ten characters or more that is no date
PostBodyC ==
    [nombre |-> <<"O", "p">>,
     fechaIngreso |-> <<"s", "i", "n", " ", "d", "e", "f", "i", "n", "i", "r">>]

PostBodies == {PostBodyA, PostBodyB, PostBodyC}

Skill(a, b) == [tipo |-> a, habilidad |-> b]
Cand(a, b) == [type |-> a, name |-> b]

\* the scenario of the specification: estatus and one skill
PutBodyA ==
    [nombre |-> <<"D", "e", "v">>, area |-> <<"I", "T">>, requisitor |-> <<"A", "n", "a">>,
     tipoProceso |-> <<"N", "u", "e", "v", "a">>, tipo |-> <<"F", "T">>,
     prioridad |-> <<"A", "l", "t", "a">>, comentarios |-> <<"u", "r", "g">>,
     estatus |-> <<"E", "n", "t", "r">>,
     habilidades |-> JList(<<Skill("tecnica", "Go")>>)]

\* a body that also carries id, folio and fechaInicio, leaves fields out, and
\* has an empty habilidades and a terna of two entries
PutBodyB ==
    [id |-> 9, folio |-> <<"X">>, fechaInicio |-> <<"1", "9", "9", "9">>,
     estatus |-> <<"T", "e", "r", "n", "a">>, prioridad |-> Null,
     habilidades |-> JList(<<>>),
     terna |-> JList(<<Cand("tecnica", "SQL"), Cand("blanda", "Ana")>>)]

PutBodies == {PutBodyA, PutBodyB}

\* const { a, b } = req.body
GetT(b, k) == IF k \in DOMAIN b THEN b[k] ELSE Undefined
GetJ(b, k) == IF k \in DOMAIN b THEN b[k] ELSE JUndefined

\* a bound parameter: both drivers send undefined as NULL
Bind(x) == IF x = Undefined THEN Null ELSE x

\* const estatus = 'Cargar Descripción de Puesto'
EstatusInicial ==
    <<"C", "a", "r", "g", "a", "r", " ", "D", "e", "s", "c", "r", "i", "p", "c", "i",
      "ó", "n", " ", "d", "e", " ", "P", "u", "e", "s", "t", "o">>

\* typeof x === 'string'
IsString(x) == x \notin {Null, Undefined}

\* fechaInicio of app.post('/api/vacantes')
FechaInicio(b, k) ==
    LET fechaIngreso == GetT(b, "fechaIngreso")
    IN  IF IsString(fechaIngreso) /\ Len(fechaIngreso) >= 10
        THEN slice0(fechaIngreso, 10)
        ELSE hoyISODate(k)

InsertedRowWithFolio(pg, id, b, fechaInicio) ==
    LET r == [id |-> id, folio |-> Folio(0, id),
              nombre |-> Or(GetT(b, "nombre"), Empty),
              area |-> Or(GetT(b, "area"), Empty),
              requisitor |-> Or(GetT(b, "requisitor"), Empty),
              tipoProceso |-> Or(GetT(b, "tipoProceso"), Empty),
              tipo |-> Or(GetT(b, "tipo"), Empty),
              prioridad |-> Or(GetT(b, "prioridad"), Empty),
              comentarios |-> Or(GetT(b, "comentarios"), Empty),
              estatus |-> EstatusInicial,
              fechaInicio |-> fechaInicio,
              habilidades |-> JNull, terna |-> JNull]
    IN  IF pg THEN r ELSE Extend(r, "fecha", Null)

\* the row INSERT INTO vacantes (...) VALUES (...) makes: folio is not among
\* the inserted columns; the SQLite statement also sets the old column fecha
InsertedRow(pg, id, b, fechaInicio) ==
    LET r == [id |-> id, folio |-> Null,
              nombre |-> Or(GetT(b, "nombre"), Empty),
              area |-> Or(GetT(b, "area"), Empty),
              requisitor |-> Or(GetT(b, "requisitor"), Empty),
              tipoProceso |-> Or(GetT(b, "tipoProceso"), Empty),
              tipo |-> Or(GetT(b, "tipo"), Empty),
              prioridad |-> Or(GetT(b, "prioridad"), Empty),
              comentarios |-> Or(GetT(b, "comentarios"), Empty),
              estatus |-> EstatusInicial,
              fechaInicio |-> fechaInicio,
              habilidades |-> JNull, terna |-> JNull]
    IN  IF pg THEN r ELSE Extend(r, "fecha", Null)

\* INTEGER PRIMARY KEY AUTOINCREMENT: one more than the largest id the table
\* has ever held (sqlite_sequence)
SqliteNextId(ids, last) == (IF ids = {} THEN last ELSE MaxOf(ids \cup {last})) + 1

\* nextval of the SERIAL column's sequence
PgNextId(last) == last + 1

\* the columns a statement names must exist
InsertColumns(pg) ==
    {"nombre", "area", "requisitor", "tipoProceso", "tipo", "prioridad", "fechaInicio",
     "comentarios", "estatus", "habilidades", "terna"} \cup (IF pg THEN {} ELSE {"fecha"})
SelectColumns ==
    {"id", "folio", "nombre", "area", "requisitor", "tipoProceso", "tipo", "prioridad",
     "fechaInicio", "comentarios", "estatus", "habilidades", "terna"}
UpdateColumns ==
    {"nombre", "area", "requisitor", "tipoProceso", "tipo", "prioridad", "comentarios",
     "estatus", "habilidades", "terna", "id"}
StmtOk(cols, needed, fault) == ~fault /\ needed \subseteq Range(cols)

\* habilidades ? JSON.stringify(habilidades) : null
ToJSONParam(x) == IF JFalsy(x) THEN JNull ELSE JText(JSONstringify(x.v))

\* what the column keeps of a JSON parameter: SQLite (TEXT) the text itself,
\* Postgres (JSONB) the value the text denotes
StoreJSON(pg, param) ==
    IF param.t = "text" /\ pg THEN JSONparse(param.v) ELSE param

PutRowBody(pg, old, b) ==
    [old EXCEPT !.nombre = Bind(GetT(b, "nombre")),
                !.area = Bind(GetT(b, "area")),
                !.requisitor = Bind(GetT(b, "requisitor")),
                !.tipoProceso = Bind(GetT(b, "tipoProceso")),
                !.tipo = Bind(GetT(b, "tipo")),
                !.prioridad = Bind(GetT(b, "prioridad")),
                !.comentarios = Bind(GetT(b, "comentarios")),
                !.estatus = Bind(GetT(b, "estatus")),
                !.habilidades = StoreJSON(pg, ToJSONParam(GetJ(b, "habilidades"))),
                !.terna = StoreJSON(pg, ToJSONParam(GetJ(b, "terna")))]

PutRowAlsoFecha(pg, old, b) ==
    [PutRowBody(pg, old, b) EXCEPT !.fechaInicio = Bind(GetT(b, "fechaInicio"))]

\* UPDATE vacantes SET nombre=.., area=.., requisitor=.., tipoProceso=.., tipo=..,
\* prioridad=.., comentarios=.., estatus=.., habilidades=.., terna=.. on one row
PutRow(pg, old, b) ==
    [old EXCEPT !.nombre = Bind(GetT(b, "nombre")),
                !.area = Bind(GetT(b, "area")),
                !.requisitor = Bind(GetT(b, "requisitor")),
                !.tipoProceso = Bind(GetT(b, "tipoProceso")),
                !.tipo = Bind(GetT(b, "tipo")),
                !.prioridad = Bind(GetT(b, "prioridad")),
                !.comentarios = Bind(GetT(b, "comentarios")),
                !.estatus = Bind(GetT(b, "estatus")),
                !.habilidades = StoreJSON(pg, ToJSONParam(GetJ(b, "habilidades"))),
                !.terna = StoreJSON(pg, ToJSONParam(GetJ(b, "terna")))]

PutStatementNoWhere(pg, tbl, i, b) ==
    [rows |-> [j \in DOMAIN tbl |-> PutRow(pg, tbl[j], b)],
     changed |-> DOMAIN tbl]

\* UPDATE vacantes SET .. WHERE id = i: the table after it and the ids of the
\* rows it changed (this.changes, rowCount)
PutStatement(pg, tbl, i, b) ==
    IF i \in DOMAIN tbl
    THEN [rows |-> [tbl EXCEPT ![i] = PutRow(pg, tbl[i], b)], changed |-> {i}]
    ELSE [rows |-> tbl, changed |-> {}]

\* ------------------------------------------------------------ result rows
\* Postgres folds the unquoted column names of the statements to lower case
Lower(c) ==
    CASE c = "tipoProceso" -> "tipoproceso"
      [] c = "fechaInicio" -> "fechainicio"
      [] OTHER -> c

\* a DATE value as a response shows it: node-postgres makes it a Date (midnight
\* of that day) and res.json writes the Date as a timestamp (process time zone
\* UTC)
PgDate(x) ==
    IF x = Null THEN Null
    ELSE x \o <<"T", "0", "0", ":", "0", "0", ":", "0", "0", ".", "0", "0", "0", "Z">>

\* the row object node-postgres builds for the named columns
PgResultRow(row, cols) ==
    [k \in {Lower(c) : c \in cols} |->
        LET v == row[CHOOSE c \in cols : Lower(c) = k]
        IN  IF k = "fechainicio" THEN PgDate(v) ELSE v]

\* the row object node-sqlite3 builds for the named columns
SqliteResultRow(row, cols) == [k \in cols |-> row[k]]

\* { ...r, over }
Spread(r, over) ==
    [k \in DOMAIN r \cup DOMAIN over |-> IF k \in DOMAIN over THEN over[k] ELSE r[k]]

\* r.k of a row object: undefined when the object has no such key
Prop(r, k) == IF k \in DOMAIN r THEN r[k] ELSE Undefined

\* row.habilidades ? JSON.parse(row.habilidades) : null
ParseOrNull(x) == IF JFalsy(x) THEN JNull ELSE JSONparse(x.v)

RawOrNull(x) == IF JFalsy(x) THEN JNull ELSE x

SqliteViewRaw(r) ==
    Spread(r, [habilidades |-> RawOrNull(r.habilidades), terna |-> RawOrNull(r.terna)])

\* the SQLite branches of list, get by id and update
SqliteView(r) ==
    Spread(r, [habilidades |-> ParseOrNull(r.habilidades), terna |-> ParseOrNull(r.terna)])

\* rows.map(...) of the Postgres branch of app.get('/api/vacantes')
PgListView(r) ==
    Spread(r, [habilidades |-> JOrNull(r.habilidades), terna |-> JOrNull(r.terna),
               fechaInicio |-> Or(Prop(r, "fechainicio"),
                                  Or(Prop(r, "fechaInicio"), Or(Prop(r, "fecha"), Null)))])

\* the Postgres branch of app.get('/api/vacantes/:id')
PgGetView(r) ==
    Spread(r, [habilidades |-> JOrNull(r.habilidades), terna |-> JOrNull(r.terna)])

\* the Postgres branch of app.put('/api/vacantes/:id')
PgPutView(r) == Spread(r, [habilidades |-> JOrNull(r.habilidades)])

RECURSIVE Desc(_)
\* ORDER BY id DESC
Desc(ids) ==
    IF ids = {} THEN <<>>
    ELSE LET m == MaxOf(ids) IN <<m>> \o Desc(ids \ {m})

\* -------------------------------------------------------------- responses
Resp(op, status, kind, id, body, ctx) ==
    [op |-> op, status |-> status, kind |-> kind, id |-> id, body |-> body, ctx |-> ctx]

\* res.status(500).json({ error: .. }) and res.status(404).json({ error: .. })
Error500(op, id) == Resp(op, 500, "error", id, <<>>, <<>>)
Error404(op, id) == Resp(op, 404, "error", id, <<>>, <<>>)
\* res.json({ message: .. })
Message200(op, id) == Resp(op, 200, "message", id, <<>>, <<>>)

\* history of a record: uid, its number among the records ever inserted, and
\* what the last PUT wrote
NoGhost == [uid |-> 0, hab |-> JUndefined, terna |-> JUndefined]

Without(f, i) == [j \in DOMAIN f \ {i} |-> f[j]]

\* a record an earlier release of the server left in the table
LegacyRow(pg) == [InsertedRow(pg, 1, PostBodyA, hoyISODate(0)) EXCEPT !.folio = Folio(0, 1)]

\* The process is not running. The database is new, or the one an earlier
\* release left: its table without the columns added since, empty or with a
\* record.
Init ==
    /\ USE_PG \in BOOLEAN
    /\ up = FALSE
    /\ mig = MigOff
    /\ queued = FALSE
    /\ columns \in (IF USE_PG THEN {<<>>, PgLegacy} ELSE {<<>>, SqliteLegacy})
    /\ \E rows \in (IF columns = <<>> THEN {0} ELSE {0, 1}) :
          /\ table = [i \in 1..rows |-> LegacyRow(USE_PG)]
          /\ seq = rows
          /\ assigned = [i \in 1..rows |-> i]
          /\ ghost = [i \in 1..rows |-> [NoGhost EXCEPT !.uid = i]]
    /\ now = 0
    /\ slot = [s \in Slots |-> Idle]
    /\ resp = NoResp
    /\ log = <<>>
    /\ during = 0
    /\ puts = 0
    /\ dels = 0
    /\ migrations = 0

\* --------------------------------------------------------------- handlers
\* app.post('/api/vacantes'), the handler's own turn: the body is read and
\* fechaInicio computed from it or from the clock; the INSERT is handed to the
\* driver and runs in a later turn
PostEnter(s, b) ==
    /\ up
    /\ resp = NoResp
    /\ during' = Served(during)
    /\ slot[s].pc = "idle"
    /\ slot' = [slot EXCEPT ![s] = [Idle EXCEPT !.pc = "post_ins",
                                                !.fechaInicio = FechaInicio(b, now),
                                                !.body = b]]
    /\ UNCHANGED <<USE_PG, queued, up, mig, columns, table, seq, now, resp, log, puts, dels,
                   migrations, assigned, ghost>>

\* app.post('/api/vacantes'): the INSERT runs
\* (on Postgres the DATE column refuses a fechaInicio that is no date and the
\* handler's catch answers 500; the TEXT column of SQLite keeps any text)
PostInsert(s, fault) ==
    /\ up
    /\ resp = NoResp
    /\ during' = Served(during)
    /\ slot[s].pc = "post_ins"
    /\ LET fechaInicio == slot[s].fechaInicio
           b == slot[s].body
           id == IF USE_PG THEN PgNextId(seq) ELSE SqliteNextId(DOMAIN table, seq)
           ok == /\ StmtOk(columns, InsertColumns(USE_PG), fault)
                 /\ id \notin DOMAIN table
                 /\ USE_PG => IsDateText(fechaInicio)
       IN  IF ok
           THEN /\ table' = Extend(table, id, InsertedRow(USE_PG, id, b, fechaInicio))
                /\ seq' = id
                /\ assigned' = Append(assigned, id)
                /\ ghost' = Extend(ghost, id, [NoGhost EXCEPT !.uid = Len(assigned) + 1])
                /\ slot' = [slot EXCEPT ![s] = [Idle EXCEPT !.pc = "post_cb", !.id = id,
                                                            !.fechaInicio = fechaInicio,
                                                            !.uid = Len(assigned) + 1,
                                                            !.born = now,
                                                            !.empty = (table = EmptyTable)]]
                /\ resp' = resp
           ELSE /\ resp' = Error500("post", 0)
                /\ slot' = [slot EXCEPT ![s] = Idle]
                /\ UNCHANGED <<table, seq, assigned, ghost>>
    /\ UNCHANGED <<USE_PG, queued, up, mig, columns, now, log, puts, dels, migrations>>

\* app.post('/api/vacantes'), the turn the INSERT's result comes back in (the
\* db.run callback, the code after the await): the folio is computed from the
\* id and from the clock, and the UPDATE is handed to the driver
PostCallback(s) ==
    /\ up
    /\ resp = NoResp
    /\ during' = Served(during)
    /\ slot[s].pc = "post_cb"
    /\ slot' = [slot EXCEPT ![s] = [slot[s] EXCEPT !.pc = "post_folio",
                                                   !.folio = Folio(now, slot[s].id)]]
    /\ UNCHANGED <<USE_PG, queued, up, mig, columns, table, seq, now, resp, log, puts, dels,
                   migrations, assigned, ghost>>

\* app.post('/api/vacantes'): the UPDATE of the folio runs and the handler
\* answers. When the UPDATE fails the SQLite callback answers 200 with folio
\* null; the Postgres branch throws into the handler's catch, which answers 500.
PostFolio(s, fault) ==
    /\ up
    /\ resp = NoResp
    /\ during' = Served(during)
    /\ slot[s].pc = "post_folio"
    /\ LET id == slot[s].id
           folio == slot[s].folio
           ok == StmtOk(columns, {"folio", "id"}, fault)
           hit == ok /\ id \in DOMAIN table
           tableAfter == IF hit THEN [table EXCEPT ![id].folio = folio] ELSE table
           ctx == [failed |-> ~ok,
                   uid |-> slot[s].uid,
                   born |-> slot[s].born,
                   stored |-> now,
                   empty |-> slot[s].empty,
                   row |-> IF id \notin DOMAIN table THEN "absent"
                           ELSE IF tableAfter[id].folio = Null THEN "null" ELSE "set"]
       IN  /\ table' = tableAfter
           /\ ghost' = ghost
           /\ resp' = IF ok
                      THEN Resp("post", 200, "created", id,
                                [id |-> id, folio |-> folio,
                                 fechaInicio |-> slot[s].fechaInicio], ctx)
                      ELSE IF USE_PG
                      THEN Resp("post", 500, "error", id, <<>>, ctx)
                      ELSE Resp("post", 200, "created", id,
                                [id |-> id, folio |-> Null,
                                 fechaInicio |-> slot[s].fechaInicio], ctx)
    /\ slot' = [slot EXCEPT ![s] = Idle]
    /\ UNCHANGED <<USE_PG, queued, up, mig, columns, seq, now, log, puts, dels, migrations,
                   assigned>>

\* app.put('/api/vacantes/:id'): the UPDATE. On Postgres it returns the row
\* (RETURNING *) and the handler answers; on SQLite the handler goes on to
\* read the row back.
PutUpdate(s, i, b, fault) ==
    /\ up
    /\ resp = NoResp
    /\ during' = Served(during)
    /\ slot[s].pc = "idle"
    /\ LET ok == StmtOk(columns, UpdateColumns, fault)
           upd == IF ok THEN PutStatement(USE_PG, table, i, b)
                  ELSE [rows |-> table, changed |-> {}]
           hit == upd.changed # {}
           first == CHOOSE j \in upd.changed : TRUE
       IN  /\ table' = upd.rows
           /\ ghost' = [j \in DOMAIN ghost |->
                           IF j \in upd.changed
                           THEN [ghost[j] EXCEPT !.hab = GetJ(b, "habilidades"),
                                                 !.terna = GetJ(b, "terna")]
                           ELSE ghost[j]]
           /\ IF ~ok THEN resp' = Error500("put", i) /\ slot' = slot
              ELSE IF ~hit THEN resp' = Error404("put", i) /\ slot' = slot
              ELSE IF USE_PG
              THEN /\ resp' = Resp("put", 200, "row", i,
                                   PgPutView(PgResultRow(upd.rows[first], Range(columns))),
                                   ghost'[first])
                   /\ slot' = slot
              ELSE /\ resp' = resp
                   /\ slot' = [slot EXCEPT ![s] = [Idle EXCEPT !.pc = "put_sel", !.id = i]]
           /\ puts' = IF hit THEN puts + 1 ELSE puts
    /\ UNCHANGED <<USE_PG, queued, up, mig, columns, seq, now, log, dels, migrations, assigned>>

\* app.put('/api/vacantes/:id') on SQLite: SELECT * of the row just updated;
\* without a row, or on an error, the handler answers 200 with a message only
PutSelect(s, fault) ==
    /\ up
    /\ resp = NoResp
    /\ during' = Served(during)
    /\ slot[s].pc = "put_sel"
    /\ LET id == slot[s].id
       IN  resp' = IF fault \/ id \notin DOMAIN table
                   THEN Resp("put", 200, "message", id, <<>>, [fault |-> fault])
                   ELSE Resp("put", 200, "row", id,
                             SqliteView(SqliteResultRow(table[id], Range(columns))),
                             ghost[id])
    /\ slot' = [slot EXCEPT ![s] = Idle]
    /\ UNCHANGED <<USE_PG, queued, up, mig, columns, table, seq, now, log, puts, dels, migrations,
                   assigned, ghost>>

\* the row object a read of row r answers with
ListView(pg, r) ==
    IF pg THEN PgListView(PgResultRow(r, SelectColumns))
    ELSE SqliteView(SqliteResultRow(r, SelectColumns))

GetView(pg, r) ==
    IF pg THEN PgGetView(PgResultRow(r, SelectColumns))
    ELSE SqliteView(SqliteResultRow(r, SelectColumns))

\* app.get('/api/vacantes/:id')
GetById(i, fault) ==
    /\ up
    /\ resp = NoResp
    /\ during' = Served(during)
    /\ resp' = IF ~StmtOk(columns, SelectColumns, fault) THEN Error500("get", i)
               ELSE IF i \notin DOMAIN table THEN Error404("get", i)
               ELSE Resp("get", 200, "row", i, GetView(USE_PG, table[i]), ghost[i])
    /\ UNCHANGED <<USE_PG, queued, up, mig, columns, table, seq, now, slot, log, puts, dels, migrations,
                   assigned, ghost>>

\* app.get('/api/vacantes')
List(fault) ==
    /\ up
    /\ resp = NoResp
    /\ during' = Served(during)
    /\ resp' = IF ~StmtOk(columns, SelectColumns, fault) THEN Error500("list", 0)
               ELSE LET order == Desc(DOMAIN table)
                    IN  Resp("list", 200, "rows", 0,
                             [j \in 1..Len(order) |-> ListView(USE_PG, table[order[j]])],
                             [j \in 1..Len(order) |-> ghost[order[j]]])
    /\ UNCHANGED <<USE_PG, queued, up, mig, columns, table, seq, now, slot, log, puts, dels, migrations,
                   assigned, ghost>>

\* app.delete('/api/vacantes/:id')
Delete(i, fault) ==
    /\ up
    /\ resp = NoResp
    /\ during' = Served(during)
    /\ LET ok == StmtOk(columns, {"id"}, fault)
           hit == ok /\ i \in DOMAIN table
       IN  /\ table' = IF hit THEN Without(table, i) ELSE table
           /\ ghost' = IF hit THEN Without(ghost, i) ELSE ghost
           /\ resp' = IF ~ok THEN Error500("delete", i)
                      ELSE IF ~hit THEN Error404("delete", i)
                      ELSE Message200("delete", i)
           /\ dels' = IF hit THEN dels + 1 ELSE dels
    /\ UNCHANGED <<USE_PG, queued, up, mig, columns, seq, now, slot, log, puts, migrations, assigned>>

\* the client has read the response
Consume ==
    /\ resp # NoResp
    /\ resp' = NoResp
    /\ UNCHANGED <<during, USE_PG, queued, up, mig, columns, table, seq, now, slot, log, puts, dels, migrations,
                   assigned, ghost>>

\* the creates that have entered and not yet inserted
Entered == Cardinality({s \in Slots : slot[s].pc = "post_ins"})

\* the startup window has room for one more request step
CanServe == StartupOver(mig, queued) \/ during < MaxDuring

\* resp records one response at a time: every step but Consume waits until
\* the client has read the response before it.
Next ==
    \/ Startup
    \/ \E fault \in BOOLEAN : createTable(fault)
    \/ \E fault \in BOOLEAN : ensureColumnPragma(fault)
    \/ \E fault \in BOOLEAN : ensureColumnAlter(fault)
    \/ \E fault \in BOOLEAN : migratePostgres(fault)
    \/ Stop
    \/ Tick
    \/ Consume
    \/ /\ CanServe
       /\ Len(assigned) + Entered < MaxCreates
       /\ \E s \in Slots, b \in PostBodies : PostEnter(s, b)
    \/ CanServe /\ \E s \in Slots, fault \in BOOLEAN : PostInsert(s, fault)
    \/ CanServe /\ \E s \in Slots : PostCallback(s)
    \/ CanServe /\ \E s \in Slots, fault \in BOOLEAN : PostFolio(s, fault)
    \/ /\ CanServe
       /\ puts < MaxPuts
       /\ \E s \in Slots, i \in Ids, b \in PutBodies, fault \in BOOLEAN :
             PutUpdate(s, i, b, fault)
    \/ CanServe /\ \E s \in Slots, fault \in BOOLEAN : PutSelect(s, fault)
    \/ CanServe /\ \E i \in Ids, fault \in BOOLEAN : GetById(i, fault)
    \/ CanServe /\ \E fault \in BOOLEAN : List(fault)
    \/ /\ CanServe
       /\ dels < MaxDeletes
       /\ \E i \in Ids, fault \in BOOLEAN : Delete(i, fault)

Spec == Init /\ [][Next]_vars

\* the startup window of NextIds has room for one more request step
CanServeIds == StartupOver(mig, queued) \/ during < MaxDuring + 1

\* The steps that assign and release ids and write folios (startup and its
\* migration, stop, midnight, create, delete), with one create more than Next
\* allows and one request step more while statements of the startup are
\* outstanding: a create and a delete fit in before the sequence resync.
NextIds ==
    \/ Startup
    \/ createTable(FALSE)
    \/ ensureColumnPragma(FALSE)
    \/ \E fault \in BOOLEAN : ensureColumnAlter(fault)
    \/ migratePostgres(FALSE)
    \/ Stop
    \/ Tick
    \/ Consume
    \/ /\ CanServeIds
       /\ Len(assigned) + Entered < MaxCreates + 1
       /\ \E s \in Slots : PostEnter(s, PostBodyA)
    \/ CanServeIds /\ \E s \in Slots, fault \in BOOLEAN : PostInsert(s, fault)
    \/ CanServeIds /\ \E s \in Slots : PostCallback(s)
    \/ CanServeIds /\ \E s \in Slots, fault \in BOOLEAN : PostFolio(s, fault)
    \/ /\ CanServeIds
       /\ dels < MaxDeletes
       /\ \E i \in 1..(MaxCreates + 1), fault \in BOOLEAN : Delete(i, fault)

SpecIds == Init /\ [][NextIds]_vars

\* ------------------------------------------------------------------ claims
\* f reads PL-YYYYMMDD-NNNN for date d and number id: four digits of year, two of
\* month, two of day, and id in at least four digits, zeros in front only to
\* fill up to four
IsFolioOf(f, d, id) ==
    /\ Len(f) >= 16
    /\ SubSeq(f, 1, 3) = <<"P", "L", "-">>
    /\ AllDigits(SubSeq(f, 4, 11))
    /\ Decimal(SubSeq(f, 4, 7)) = d.y
    /\ Decimal(SubSeq(f, 8, 9)) = d.m
    /\ Decimal(SubSeq(f, 10, 11)) = d.d
    /\ f[12] = "-"
    /\ LET n == SubSeq(f, 13, Len(f))
       IN  /\ AllDigits(n)
           /\ Decimal(n) = id
           /\ Len(n) = 4 \/ n[1] # "0"

\* C1: the ids create assigns are strictly increasing, so no id is assigned to
\* two records, also across deletes and restarts (each restart resyncing the
\* Postgres sequence to MAX(id)).
IdsNeverReused ==
    \A j, k \in 1..Len(assigned) : j < k => assigned[j] < assigned[k]

\* C2: a record's folio is written once, by the create that inserted that very
\* record (not another record that had the same id) and after the insert; once
\* not null it stays as it is, whatever updates, reads and creates follow, for
\* as long as the record exists.
FolioWrittenOnce ==
    [][\A i \in DOMAIN table' :
          LET same == i \in DOMAIN table /\ ghost[i].uid = ghost'[i].uid
              had == same /\ table[i].folio # Null
          IN  /\ had => table'[i].folio = table[i].folio
              /\ (~had /\ table'[i].folio # Null) =>
                    /\ same
                    /\ \E s \in Slots : /\ slot[s].pc = "post_folio"
                                        /\ slot[s].id = i
                                        /\ slot[s].uid = ghost[i].uid
                                        /\ slot'[s] = Idle]_vars

\* the last five characters of a folio of sixteen are -0001
EndsIn0001(f) == Len(f) = 16 /\ SubSeq(f, 12, 16) = <<"-", "0", "0", "0", "1">>

\* f reads as a folio of number id for some day of the clock
IsFolio(f, id) == \E d \in 0..MaxDay : IsFolioOf(f, DateOf(d), id)

\* C3 as stated: every assigned folio reads PL-<YYYYMMDD>-<id in four digits>;
\* the date of the folio a create assigns is the creation date, the day the
\* create inserted the record; a create on an empty table answers id 1 and
\* folio PL-<today>-0001.
FolioFormatAsStated ==
    /\ \A i \in DOMAIN table : table[i].folio # Null => IsFolio(table[i].folio, i)
    /\ (resp.op = "post" /\ resp.kind = "created" /\ resp.body.folio # Null) =>
          /\ resp.ctx.row = "set" => table[resp.body.id].folio = resp.body.folio
          /\ IsFolioOf(resp.body.folio, DateOf(resp.ctx.born), resp.body.id)
          /\ resp.ctx.empty => resp.body.id = 1 /\ EndsIn0001(resp.body.folio)

\* C3, amended: every assigned folio reads PL-<YYYYMMDD>-<id in four digits>;
\* the date of the folio a create assigns is a day between the day the create
\* inserted the record and the day it stored the folio (the creation date
\* unless midnight passes in between); the first create on a table that has
\* never held a record answers id 1 and a folio that ends in -0001, a create
\* on a table emptied by deletes answers an id above 1.
FolioFormat ==
    /\ \A i \in DOMAIN table : table[i].folio # Null => IsFolio(table[i].folio, i)
    /\ (resp.op = "post" /\ resp.kind = "created" /\ resp.body.folio # Null) =>
          /\ resp.ctx.row = "set" => table[resp.body.id].folio = resp.body.folio
          /\ \E d \in resp.ctx.born..resp.ctx.stored :
                IsFolioOf(resp.body.folio, DateOf(d), resp.body.id)
          /\ resp.ctx.uid = 1 => resp.body.id = 1 /\ EndsIn0001(resp.body.folio)
          /\ (resp.ctx.empty /\ resp.ctx.uid > 1) => resp.body.id > 1

\* a create on a table emptied by a delete has answered id 2 and a folio that
\* carries the day after the one its record was inserted on
FolioOnEmptiedTableAcrossMidnight ==
    /\ resp.op = "post"
    /\ resp.kind = "created"
    /\ resp.ctx.empty
    /\ resp.ctx.born = 0
    /\ resp.body.id = 2
    /\ resp.body.folio = Folio(1, 2)
    /\ 2 \in DOMAIN table
    /\ table[2].folio = Folio(1, 2)

\* C4: when the INSERT of a create succeeds and the folio UPDATE fails, the
\* create answers 200 with the new id and folio null, and the row has a null
\* folio, on either backend.
PartialSuccessAnswers200 ==
    (resp.op = "post" /\ resp.id # 0 /\ resp.ctx.failed) =>
        /\ resp.status = 200
        /\ resp.kind = "created"
        /\ resp.body.id = resp.id
        /\ resp.body.folio = Null
        /\ resp.ctx.row # "set"

\* what every UPDATE step of a PUT on id i shows: the step answers the PUT, or
\* leaves its handler about to read the row back
PutStep(i) ==
    \/ resp'.op = "put" /\ resp'.id = i
    \/ \E s \in Slots : slot[s].pc = "idle" /\ slot'[s].pc = "put_sel" /\ slot'[s].id = i

\* C5: a PUT on an id the table does not hold changes no row and, when its
\* UPDATE statement runs, answers 404.
PutMissingIs404 ==
    [][\A s \in Slots, i \in Ids, b \in PutBodies, fault \in BOOLEAN :
          (i \notin DOMAIN table /\ PutStep(i) /\ PutUpdate(s, i, b, fault)) =>
              /\ table' = table
              /\ resp'.op = "put"
              /\ resp'.id = i
              /\ resp'.status = IF StmtOk(columns, UpdateColumns, fault) THEN 404 ELSE 500]_vars

\* a PUT on a missing id was answered 404 while the table holds a row
PutMissingAnswered ==
    /\ resp.op = "put"
    /\ resp.status = 404
    /\ resp.id \notin DOMAIN table
    /\ table # EmptyTable

\* what a read must show of a record whose last PUT wrote g
ReadsBack(body, g) ==
    /\ g.hab.t = "list" => body.habilidades = g.hab
    /\ g.terna.t = "list" => body.terna = g.terna

\* C6: a list written as habilidades or terna by a PUT is what a later GET of
\* the record, by id or in the list, shows: an equal structured value, never
\* the text, on both backends.
RoundTrip ==
    /\ (resp.op = "get" /\ resp.kind = "row") => ReadsBack(resp.body, resp.ctx)
    /\ (resp.op = "list" /\ resp.kind = "rows") =>
          \A j \in 1..Len(resp.body) : ReadsBack(resp.body[j], resp.ctx[j])

\* a GET by id on the text-column backend showed a terna of two entries and an
\* empty habilidades as they were written
RoundTripRead ==
    /\ ~USE_PG
    /\ resp.op = "get"
    /\ resp.kind = "row"
    /\ resp.ctx.terna.t = "list"
    /\ Len(resp.body.terna.v) = 2
    /\ resp.body.habilidades = JList(<<>>)

\* an error of the startup migration is in the log: console.error of
\* migrateSQLite's catch or of the startup IIFE's catch, console.warn of the
\* catch around the sequence resync
MigrationError(l) == Range(l) \cap {"sqlite_error", "init_error", "seq_warn"} # {}

\* C7: every statement of a startup migration that runs on a schema a migration
\* has completed on before adds no column, leaves no column twice, leaves the
\* rows as they are and logs no migration error (an error in the log is one an
\* earlier, failing statement has left there), on either backend. The
\* statements are those that run without an I/O fault.
MigrationIdempotent ==
    [][(/\ migrations > 0
        /\ \/ Startup
           \/ createTable(FALSE)
           \/ ensureColumnPragma(FALSE)
           \/ \E fault \in BOOLEAN : ensureColumnAlter(fault)
           \/ migratePostgres(FALSE)) =>
          /\ columns' = columns
          /\ NoDuplicates(columns')
          /\ table' = table
          /\ MigrationError(log') => log' = log]_vars

\* C8: a PUT on a record the table holds leaves the record's id, folio and
\* fechaInicio as they are, whatever the body carries, and leaves every other
\* record as it is.
PutFrame ==
    [][\A s \in Slots, i \in Ids, b \in PutBodies, fault \in BOOLEAN :
          (i \in DOMAIN table /\ PutStep(i) /\ PutUpdate(s, i, b, fault)) =>
              /\ DOMAIN table' = DOMAIN table
              /\ table'[i].id = table[i].id
              /\ table'[i].folio = table[i].folio
              /\ table'[i].fechaInicio = table[i].fechaInicio
              /\ \A j \in DOMAIN table \ {i} : table'[j] = table[j]]_vars

\* a PUT whose body carries id, folio and fechaInicio has updated one of two
\* records
PutAmongTwo ==
    /\ resp.op = "put"
    /\ resp.kind = "row"
    /\ resp.ctx.terna.t = "list"
    /\ Cardinality(DOMAIN table) = 2
    /\ resp.body.id = resp.id

\* C9: a PUT that updated a row (answered 200, its SELECT not failing) answers
\* with the record, also when other requests on the id interleave.
PutAnswersRecord ==
    (resp.op = "put" /\ resp.status = 200 /\ resp.kind = "message") => resp.ctx.fault

\* the field names of the data model
CanonicalKeys == SelectColumns

\* C10: on Postgres every record a read or an update answers with has the
\* camel-case field names of the data model, the key set SQLite answers with.
PgCanonicalKeys ==
    USE_PG =>
        /\ (resp.kind = "row" /\ resp.op = "get") => DOMAIN resp.body = CanonicalKeys
        /\ (resp.kind = "row" /\ resp.op = "put") =>
              {"fechaInicio", "tipoProceso"} \subseteq DOMAIN resp.body
        /\ resp.kind = "rows" =>
              \A j \in 1..Len(resp.body) : DOMAIN resp.body[j] = CanonicalKeys

\* C11: when an ensureColumn call of the SQLite startup migration fails, the
\* failure is logged, the process goes on, and only that column is skipped: at
\* the end of the run every other required column is there.
FailedColumnOnlySkipped ==
    [][\A fault \in BOOLEAN :
          ((ensureColumnPragma(fault) \/ ensureColumnAlter(fault)) /\ mig'.pc = "done") =>
              /\ up'
              /\ ~Has(columns', NewColumns[mig.col]) => MigrationError(log')
              /\ \A c \in Range(NewColumns) \ {NewColumns[mig.col]} : Has(columns', c)]_vars

\* the create of record i has inserted it and its folio UPDATE has not run
Between(i) == \E s \in Slots : slot[s].pc \in {"post_cb", "post_folio"} /\ slot[s].id = i

\* C12: a read that answers while a create is between its INSERT and its folio
\* UPDATE shows the new record with folio null.
ReadBetweenSeesNullFolio ==
    /\ (resp.op = "get" /\ resp.kind = "row") =>
          (Between(resp.id) => resp.body.folio = Null)
    /\ (resp.op = "list" /\ resp.kind = "rows") =>
          \A j \in 1..Len(resp.body) :
              Between(resp.body[j].id) => resp.body[j].folio = Null

\* the list answered with two records while the create of the newer one has
\* computed its folio and not yet written it: the older has its folio, the
\* newer has none
ListBetweenInsertAndFolio ==
    /\ resp.op = "list"
    /\ resp.kind = "rows"
    /\ Len(resp.body) = 2
    /\ \E s \in Slots : slot[s].pc = "post_folio" /\ slot[s].id = resp.body[1].id
    /\ resp.body[1].folio = Null
    /\ resp.body[2].folio # Null

\* C13: the fechaInicio a create stores and answers with is a well-formed
\* YYYY-MM-DD date.
FechaInicioWellFormed ==
    /\ \A i \in DOMAIN table : IsDateText(table[i].fechaInicio)
    /\ (resp.op = "post" /\ resp.kind = "created") => IsDateText(resp.body.fechaInicio)

====
